---- MODULE Spec2Model ----
(***************************************************************************)
(* Model of src/main.py: a Tkinter barcode scanner.  One UI event loop     *)
(* runs the button handlers (cam_feed, take_picture, detect_code), the     *)
(* Treeview selection handler (select_link) and the update_frame timer     *)
(* callbacks, one at a time.  Every handler is one atomic action.          *)
(*                                                                         *)
(* Library behaviour the handlers rely on:                                 *)
(*   - cv2.VideoCapture.read() returns (False, None) when no frame is      *)
(*     available (device released, never opened, or a transient failure);  *)
(*   - cv2.flip(None, 1) takes None as an empty matrix and returns None;   *)
(*   - an exception that leaves a Tk callback is reported on stderr by     *)
(*     Tk and the event loop goes on: the rest of the handler is skipped;  *)
(*   - PIL.Image.open raises FileNotFoundError for a missing file and      *)
(*     UnidentifiedImageError (an OSError) for a file that is no image.    *)
(* The detector's payloads are valid UTF-8 text.                           *)
(***************************************************************************)
EXTENDS Integers, Sequences, FiniteSets, TLC

VARIABLES
    cap,          \* global camera handle: None, or the state of the VideoCapture object
    openHandles,  \* number of VideoCapture objects that hold the device open
    seen_barcodes,\* global set of payloads already handled by the live feed
    tree,         \* rows of the Treeview, in display order
    shown,        \* image configured on cam_label: its source (none yet, a feed frame
                  \* or a still image) and how its pixels relate to the source's
    file,         \* content of captured_image.jpg in the working directory
    timers,       \* number of pending label.after(10, update_frame) callbacks
    autoOpens,    \* webbrowser.open calls made by decode_barcodes_over_feed, per url
    selOpens,     \* webbrowser.open calls made by select_link, per url
    feedRows,     \* rows inserted by decode_barcodes_over_feed, per payload
    running,      \* root.mainloop() has not returned
    out           \* what the last handler did that the user or the system can observe

vars == <<cap, openHandles, seen_barcodes, tree, shown, file, timers,
          autoOpens, selOpens, feedRows, running, out>>

(* ------------------------------- bounds ------------------------------- *)

\* longest detection list the detector returns for one image
MaxDet == 2
\* most update_frame callback chains pending at once
MaxTimers == 2
\* most webbrowser.open calls made from row selections
MaxSelects == 1

(* ------------------------------ the data ------------------------------ *)

None == "None"

\* Detected codes: payload text (barcode.data.decode("utf-8")) and symbology.
Codes ==
    { [data |-> "https://example.com", type |-> "QRCODE"],
      [data |-> "ftp://host/res",      type |-> "CODE128"] }

Payloads == { c.data : c \in Codes }

NoBarcodes == "No barcodes detected"

Strings == Payloads \cup {NoBarcodes}

SeqsUpTo(S, n) == UNION { [1..k -> S] : k \in 0..n }

\* every list decode() can return for one image
DetLists == SeqsUpTo(Codes, MaxDet)


\* captured_image.jpg: missing, a file that is no image, an empty image, or
\* an image.  What the detector finds in an image is decided when it runs.
Files == {"missing", "unreadable", "empty", "image"}

Quiet(op) ==
    [op |-> op, read |-> "none", detector |-> FALSE, alert |-> "",
     confirm |-> FALSE, response |-> "", link |-> "", urls |-> << >>,
     barcodes |-> << >>, labels |-> << >>, decoded |-> << >>,
     wrote |-> FALSE, raised |-> "", resched |-> FALSE]


Count(s, x) == Cardinality({ i \in DOMAIN s : s[i] = x })

Sum(f) == LET RECURSIVE Add(_)
              Add(D) == IF D = {} THEN 0
                        ELSE LET d == CHOOSE d \in D : TRUE IN f[d] + Add(D \ {d})
          IN Add(DOMAIN f)

\* each element of `items` counted once more in the per-string counts
\* (webbrowser.open(u) for each url opened, one row for each row inserted)
Opened(counts, items) == [u \in Strings |-> counts[u] + Count(items, u)]

(* ---------------------- the camera (cv2.VideoCapture) ------------------ *)

\* cap.isOpened()
isOpened(c) == c = "opened"

\* release() leaving the device open
releaseNoop(c) == c

\* cap.release(): closes the device if this object holds it
release(c) == IF c = "opened" THEN "released" ELSE c

\* the handle left open when it is replaced or dropped
closesNothing(c) == 0

\* lines 75-76, 141-142, 273-274: `if cap is not None: cap.release()`, as the
\* number of open devices it closes
closes(c) == IF c # None /\ isOpened(c) THEN 1 ELSE 0

\* cv2.VideoCapture(index): the device opens, or it does not
VideoCapture(ok) == IF ok THEN "opened" ELSE "failed"

\* ret of cap.read(): a frame is available only from an opened device, and
\* even then a read can fail; ret = False comes with frame = None
read(c) == IF isOpened(c) THEN BOOLEAN ELSE {FALSE}

(* --------------------- decode_barcodes_over_feed ----------------------- *)

\* the dedup test answering "not seen" for every payload
AlreadySeenNever(data, seen) == FALSE

\* line 38: barcode_data in seen_barcodes
AlreadySeen(data, seen) == data \in seen

\* line 57: f"{barcode_data} ({barcode_type})"
FeedLabel(code) == code.data \o " (" \o code.type \o ")"

\* the row numbered with the 0-based index
FeedRowFromZero(i, data) == [text |-> ToString(i), values |-> <<i, data>>]

\* line 63: tree.insert("", tk.END, text=i, values=(i+1, barcode_data)),
\* i being the 0-based index of enumerate(barcodes)
FeedRow(i, data) == [text |-> ToString(i), values |-> <<i + 1, data>>]

\* the loop body inserting its row before the dedup test
FeedStepRowFirst(b, k, st) ==
    IF AlreadySeen(b.data, st.seen)
    THEN [st EXCEPT !.labels = Append(@, b.data),
                    !.rows = Append(@, FeedRow(k - 1, b.data))]
    ELSE [seen   |-> st.seen \cup {b.data},
          urls   |-> Append(st.urls, b.data),
          labels |-> Append(st.labels, FeedLabel(b)),
          rows   |-> Append(st.rows, FeedRow(k - 1, b.data))]

\* the loop body assigning the set instead of adding to it
FeedStepAssign(b, k, st) ==
    IF AlreadySeen(b.data, st.seen)
    THEN [st EXCEPT !.labels = Append(@, b.data)]
    ELSE [seen   |-> {b.data},
          urls   |-> Append(st.urls, b.data),
          labels |-> Append(st.labels, FeedLabel(b)),
          rows   |-> Append(st.rows, FeedRow(k - 1, b.data))]

\* one iteration of the for loop, on the code at 1-based position k
FeedStep(b, k, st) ==
    IF AlreadySeen(b.data, st.seen)
    THEN [st EXCEPT !.labels = Append(@, b.data)]
    ELSE [seen   |-> st.seen \cup {b.data},
          urls   |-> Append(st.urls, b.data),
          labels |-> Append(st.labels, FeedLabel(b)),
          rows   |-> Append(st.rows, FeedRow(k - 1, b.data))]

RECURSIVE FeedLoop(_, _, _)
FeedLoop(barcodes, k, st) ==
    IF k > Len(barcodes) THEN st
    ELSE FeedLoop(barcodes, k + 1, FeedStep(barcodes[k], k, st))

\* the whole function: the new dedup set, the urls opened, the rows inserted
\* and the labels drawn on the frame, in order
decode_barcodes_over_feed(barcodes, seen) ==
    FeedLoop(barcodes, 1,
             [seen |-> seen, urls |-> << >>, labels |-> << >>, rows |-> << >>])

(* ------------------------------- pixels -------------------------------- *)

\* An image as the pipeline passes it on: whether it is mirrored with respect
\* to what the camera or the file delivered, and the order of its colour
\* channels.  PIL.Image.fromarray and ImageTk.PhotoImage read an array as
\* RGB, so an image is displayed in its true colours only in that order.
Picture(src, channels) == [src |-> src, flipped |-> FALSE, channels |-> channels]

\* line 91: cap.read() delivers BGR
CameraFrame == Picture("live", "BGR")

\* line 150: PIL.Image.open delivers RGB
FileImage == Picture("still", "RGB")

\* lines 92, 125: cv2.flip(frame, 1)
flip(img) == [img EXCEPT !.flipped = ~@]

\* lines 66, 96, 188: cv2.cvtColor(img, cv2.COLOR_BGR2RGB) exchanges the first
\* and the third channel, whatever order the array is in
cvtColor(img) ==
    [img EXCEPT !.channels = IF @ = "BGR" THEN "RGB" ELSE "BGR"]

\* lines 92-107: the frame is mirrored, converted (line 96), passed through
\* decode_barcodes_over_feed, which converts it again (line 66), and shown
LiveImage == cvtColor(cvtColor(flip(CameraFrame)))

(* ------------------------------ Init ---------------------------------- *)

Init ==
    /\ cap = None
    /\ openHandles = 0
    /\ seen_barcodes = {}
    /\ tree = << >>
    /\ shown = Picture("none", "RGB")
    /\ file \in Files
    /\ timers = 0
    /\ autoOpens = [u \in Strings |-> 0]
    /\ selOpens = [u \in Strings |-> 0]
    /\ feedRows = [u \in Strings |-> 0]
    /\ running = TRUE
    /\ out = Quiet("init")

(* ---------------------------- update_frame ----------------------------- *)

\* lines 109-110: label.after(10, update_frame) adds one pending callback
after(pending) == pending + 1

\* update_frame with label.after inside the `if ret` block
update_frameAfterInsideIf(op, ret, barcodes, pending) ==
    IF ret
    THEN LET r == decode_barcodes_over_feed(barcodes, seen_barcodes) IN
         /\ seen_barcodes' = r.seen
         /\ tree' = tree \o r.rows
         /\ autoOpens' = Opened(autoOpens, r.urls)
         /\ feedRows' = Opened(feedRows, [i \in DOMAIN r.rows |-> r.rows[i].values[2]])
         /\ shown' = LiveImage
         /\ timers' = after(pending)
         /\ out' = [Quiet(op) EXCEPT !.read = "ok", !.detector = TRUE,
                                     !.barcodes = barcodes,
                                     !.urls = r.urls, !.labels = r.labels,
                                     !.resched = TRUE]
    ELSE /\ UNCHANGED <<seen_barcodes, tree, autoOpens, feedRows, shown>>
         /\ timers' = pending
         /\ out' = [Quiet(op) EXCEPT !.read = "fail"]

\* update_frame decoding whatever read() returned, without testing ret
update_frameNoRetTest(op, ret, barcodes, pending) ==
    LET r == decode_barcodes_over_feed(barcodes, seen_barcodes) IN
    /\ seen_barcodes' = r.seen
    /\ tree' = tree \o r.rows
    /\ autoOpens' = Opened(autoOpens, r.urls)
    /\ feedRows' = Opened(feedRows, [i \in DOMAIN r.rows |-> r.rows[i].values[2]])
    /\ shown' = LiveImage
    /\ timers' = after(pending)
    /\ out' = [Quiet(op) EXCEPT !.read = IF ret THEN "ok" ELSE "fail",
                                !.detector = TRUE, !.barcodes = barcodes,
                                !.urls = r.urls,
                                !.labels = r.labels, !.resched = TRUE]

\* The body of update_frame, run with `pending` callbacks still scheduled.
\* ret = True: the frame is decoded and the label is updated.  ret = False:
\* `if ret` skips all of that.  Either way the callback is scheduled again.
update_frame(op, ret, barcodes, pending) ==
    IF ret
    THEN LET r == decode_barcodes_over_feed(barcodes, seen_barcodes) IN
         /\ seen_barcodes' = r.seen
         /\ tree' = tree \o r.rows
         /\ autoOpens' = Opened(autoOpens, r.urls)
         /\ feedRows' = Opened(feedRows, [i \in DOMAIN r.rows |-> r.rows[i].values[2]])
         /\ shown' = LiveImage
         /\ timers' = after(pending)
         /\ out' = [Quiet(op) EXCEPT !.read = "ok", !.detector = TRUE,
                                     !.barcodes = barcodes,
                                     !.urls = r.urls, !.labels = r.labels,
                                     !.resched = TRUE]
    ELSE /\ UNCHANGED <<seen_barcodes, tree, autoOpens, feedRows, shown>>
         /\ timers' = after(pending)
         /\ out' = [Quiet(op) EXCEPT !.read = "fail", !.resched = TRUE]

\* a pending timer callback fires
Tick ==
    /\ running
    /\ timers > 0
    /\ \E ret \in read(cap) :
       \E barcodes \in (IF ret THEN DetLists ELSE {<< >>}) :
          update_frame("update_frame", ret, barcodes, timers - 1)
    /\ UNCHANGED <<cap, openHandles, file, selOpens, running>>

(* ------------------------------ cam_feed ------------------------------- *)

\* "Start feed": release the old handle, open a new one, run update_frame once
cam_feed ==
    /\ running
    /\ timers < MaxTimers
    /\ \E ok \in BOOLEAN :
          /\ cap' = VideoCapture(ok)
          /\ openHandles' = openHandles - closes(cap) + (IF ok THEN 1 ELSE 0)
          /\ \E ret \in read(cap') :
             \E barcodes \in (IF ret THEN DetLists ELSE {<< >>}) :
                update_frame("cam_feed", ret, barcodes, timers)
    /\ UNCHANGED <<file, selOpens, running>>

(* ---------------------------- take_picture ----------------------------- *)

\* the test of line 121 without its isOpened part
NoFeedNoneOnly(c) == c = None

\* line 121: cap is None or not cap.isOpened()
NoFeed(c) == c = None \/ ~isOpened(c)

\* take_picture with cv2.imwrite outside the `if ret` block
take_pictureWritesAlways ==
    /\ running
    /\ IF NoFeed(cap)
       THEN /\ out' = [Quiet("take_picture") EXCEPT
                          !.alert = "Please start the video feed first."]
            /\ UNCHANGED file
       ELSE \E ret \in read(cap) :
               /\ file' = "image"
               /\ out' = IF ret
                         THEN [Quiet("take_picture") EXCEPT
                                  !.read = "ok", !.wrote = TRUE]
                         ELSE [Quiet("take_picture") EXCEPT
                                  !.read = "fail", !.wrote = TRUE,
                                  !.alert = "Failed to capture image."]
    /\ UNCHANGED <<cap, openHandles, seen_barcodes, tree, shown, timers,
                   autoOpens, selOpens, feedRows, running>>

\* "Take a Picture"
take_picture ==
    /\ running
    /\ IF NoFeed(cap)
       THEN /\ out' = [Quiet("take_picture") EXCEPT
                          !.alert = "Please start the video feed first."]
            /\ UNCHANGED file
       ELSE \E ret \in read(cap) :
               IF ret
               THEN /\ file' = "image"
                    /\ out' = [Quiet("take_picture") EXCEPT
                                  !.read = "ok", !.wrote = TRUE]
               ELSE /\ out' = [Quiet("take_picture") EXCEPT
                                  !.read = "fail",
                                  !.alert = "Failed to capture image."]
                    /\ UNCHANGED file
    /\ UNCHANGED <<cap, openHandles, seen_barcodes, tree, shown, timers,
                   autoOpens, selOpens, feedRows, running>>

(* ----------------------------- detect_code ----------------------------- *)

\* the rows left in place
ClearTreeKept(t) == t

\* lines 145-146: every item of the tree is deleted
ClearTree(t) == << >>

\* lines 148-162: what loading the file ends in
Load(f) ==
    CASE f = "missing"    -> "FileNotFoundError"
      [] f = "empty"      -> "ValueError"
      [] f = "unreadable" -> "UnidentifiedImageError"
      [] OTHER            -> "ok"

\* line 159: except (FileNotFoundError, ValueError)
Caught(e) == e \in {"FileNotFoundError", "ValueError"}

\* the rows numbered with the 0-based index
StillRowsFromZero(decoded) ==
    IF Len(decoded) = 0
    THEN << [text |-> "n/a", values |-> <<1, NoBarcodes>>] >>
    ELSE [i \in 1..Len(decoded) |->
            [text |-> ToString(i - 1), values |-> <<i - 1, decoded[i].data>>]]

\* lines 170-185: the sentinel row, or one row per detected code
StillRows(decoded) ==
    IF Len(decoded) = 0
    THEN << [text |-> "n/a", values |-> <<1, NoBarcodes>>] >>
    ELSE [i \in 1..Len(decoded) |->
            [text |-> ToString(i - 1), values |-> <<i, decoded[i].data>>]]

\* lines 150-193: the opened image is converted (line 188) and shown
StillImage == cvtColor(FileImage)

\* detect_code recording what it decodes in the dedup set
detect_codeUsesDedup ==
    /\ running
    /\ cap' = release(cap)
    /\ openHandles' = openHandles - closes(cap)
    /\ LET e == Load(file) IN
       IF e = "ok"
       THEN \E decoded \in DetLists :
            /\ tree' = ClearTree(tree) \o StillRows(decoded)
            /\ shown' = StillImage
            /\ seen_barcodes' =
                  seen_barcodes \cup { decoded[i].data : i \in DOMAIN decoded }
            /\ out' = [Quiet("detect_code") EXCEPT
                          !.detector = TRUE, !.decoded = decoded]
       ELSE /\ tree' = ClearTree(tree)
            /\ UNCHANGED <<shown, seen_barcodes>>
            /\ out' = IF Caught(e)
                      THEN [Quiet("detect_code") EXCEPT !.alert = "Error: " \o e]
                      ELSE [Quiet("detect_code") EXCEPT !.raised = e]
    /\ UNCHANGED <<file, timers, autoOpens, selOpens, feedRows, running>>

\* "Detect Code", on the default path captured_image.jpg
detect_code ==
    /\ running
    /\ cap' = release(cap)
    /\ openHandles' = openHandles - closes(cap)
    /\ LET e == Load(file) IN
       IF e = "ok"
       THEN \E decoded \in DetLists :
            /\ tree' = ClearTree(tree) \o StillRows(decoded)
            /\ shown' = StillImage
            /\ out' = [Quiet("detect_code") EXCEPT
                          !.detector = TRUE, !.decoded = decoded]
       ELSE /\ tree' = ClearTree(tree)
            /\ UNCHANGED shown
            /\ out' = IF Caught(e)
                      THEN [Quiet("detect_code") EXCEPT !.alert = "Error: " \o e]
                      ELSE [Quiet("detect_code") EXCEPT !.raised = e]
    /\ UNCHANGED <<seen_barcodes, file, timers, autoOpens, selOpens, feedRows,
                   running>>

(* ----------------------------- select_link ----------------------------- *)

\* str.startswith
StartsWith(s, prefix) ==
    Len(s) >= Len(prefix) /\ SubSeq(s, 1, Len(prefix)) = prefix

\* line 208
IsLink(link) == StartsWith(link, "https:")

\* the item opened whatever the answer
AcceptsAny(response) == TRUE

\* line 214: the confirmation answer that opens the item
Accepts(response) == response = "OK"

\* <<TreeviewSelect>> on the row at position idx; response is what the user
\* answers if the confirmation box is shown
select_link ==
    /\ running
    /\ Sum(selOpens) < MaxSelects
    /\ \E idx \in DOMAIN tree :
       LET link == tree[idx].values[2] IN
       IF IsLink(link)
       THEN /\ selOpens' = Opened(selOpens, <<link>>)
            /\ out' = [Quiet("select_link") EXCEPT !.link = link, !.urls = <<link>>]
       ELSE \E response \in {"OK", "Cancel"} :
            LET urls == IF Accepts(response) THEN <<link>> ELSE << >> IN
            /\ selOpens' = Opened(selOpens, urls)
            /\ out' = [Quiet("select_link") EXCEPT
                          !.link = link, !.confirm = TRUE,
                          !.response = response, !.urls = urls]
    /\ UNCHANGED <<cap, openHandles, seen_barcodes, tree, shown, file, timers,
                   autoOpens, feedRows, running>>

(* -------------------------------- exit --------------------------------- *)

\* "Exit": root.destroy ends mainloop, pending callbacks are dropped, and
\* lines 272-274 release the handle
exit ==
    /\ running
    /\ running' = FALSE
    /\ timers' = 0
    /\ cap' = IF cap = None THEN None ELSE release(cap)
    /\ openHandles' = openHandles - closes(cap)
    /\ out' = Quiet("exit")
    /\ UNCHANGED <<seen_barcodes, tree, shown, file, autoOpens, selOpens,
                   feedRows>>

Next ==
    \/ cam_feed
    \/ Tick
    \/ take_picture
    \/ detect_code
    \/ select_link
    \/ exit

Spec == Init /\ [][Next]_vars

(* ======================= properties of the program ===================== *)

\* number of rows of the Treeview whose Data column is p
RowsOf(p) == Cardinality({ i \in DOMAIN tree : tree[i].values[2] = p })

(* C1: decode_barcodes_over_feed calls webbrowser.open at most once per     *)
(* payload in a session, whatever the frames hold and however often the    *)
(* feed is restarted.                                                      *)
C1_DispatchAtMostOnce == \A p \in Strings : autoOpens[p] <= 1

\* cam_feed restarted the feed on a frame holding an already dispatched
\* payload twice: both boxes carry the already-seen label and nothing is opened
C1_Witness ==
    \E p \in Payloads :
        /\ out.op = "cam_feed"
        /\ out.labels = <<p, p>>
        /\ out.urls = << >>
        /\ autoOpens[p] = 1

(* C2, as stated: in every reachable state a payload is in seen_barcodes   *)
(* if and only if webbrowser.open has been called exactly once for it and  *)
(* exactly one Display Row holds it.                                       *)
C2_AsStated ==
    \A p \in Payloads :
        p \in seen_barcodes <=> (autoOpens[p] + selOpens[p] = 1 /\ RowsOf(p) = 1)

(* C2, amended: a payload is in seen_barcodes if and only if               *)
(* decode_barcodes_over_feed has called webbrowser.open for it exactly     *)
(* once and has inserted exactly one row for it; for a payload not in the  *)
(* set it has done neither.                                                *)
C2_SeenIffFeedHandledOnce ==
    \A p \in Payloads :
        /\ p \in seen_barcodes => autoOpens[p] = 1 /\ feedRows[p] = 1
        /\ p \notin seen_barcodes => autoOpens[p] = 0 /\ feedRows[p] = 0

\* a payload handled once by the feed whose row a still-image scan removed
\* and which a row selection then opened again
C2_Witness ==
    \E p \in Payloads :
        /\ p \in seen_barcodes
        /\ autoOpens[p] = 1 /\ feedRows[p] = 1
        /\ selOpens[p] = 1
        /\ \E q \in Payloads : q \notin seen_barcodes /\ RowsOf(q) > 0

(* C3: seen_barcodes starts empty and every step of every handler leaves   *)
(* it a superset of what it was.                                           *)
C3_DedupSetOnlyGrows ==
    /\ seen_barcodes = {}
    /\ [][seen_barcodes \subseteq seen_barcodes']_vars

\* the set holds every payload and has lived through a still-image scan
C3_Witness ==
    /\ seen_barcodes = Payloads
    /\ out.op = "detect_code"

(* C4, as stated: detect_code on a file that is missing, unreadable or an  *)
(* empty image shows an alert, does not run the detector, leaves every row *)
(* of the tree in place and leaves the displayed image as it was.          *)
C4_AsStated ==
    [][(out'.op = "detect_code" /\ file \in {"missing", "unreadable", "empty"})
          => /\ out'.alert # ""
             /\ ~out'.detector
             /\ tree' = tree
             /\ shown' = shown]_vars

(* C5: a timer tick whose read fails shows no alert and raises nothing,    *)
(* and the callback is pending again afterwards, so the next tick can run. *)
C5_FailedTickReschedules ==
    [][(out'.op = "update_frame" /\ out'.read = "fail")
          => /\ out'.alert = "" /\ out'.raised = ""
             /\ timers' = timers
             /\ timers' > 0 /\ running']_vars

\* a transient failure: the device is open, the read failed and the one
\* callback chain is still pending
C5_Witness ==
    /\ out.op = "update_frame" /\ out.read = "fail"
    /\ isOpened(cap)
    /\ timers = 1

(* C6: when the read of update_frame fails, the detector is not run and    *)
(* the dedup set, the rows and the opened urls stay as they were.          *)
C6_FailedReadChangesNothing ==
    [][(out'.op \in {"update_frame", "cam_feed"} /\ out'.read = "fail")
          => /\ ~out'.detector
             /\ out'.urls = << >>
             /\ seen_barcodes' = seen_barcodes
             /\ tree' = tree
             /\ autoOpens' = autoOpens /\ selOpens' = selOpens]_vars

\* a failed tick in a session that already has a seen payload and rows
C6_Witness ==
    /\ out.op = "update_frame" /\ out.read = "fail"
    /\ seen_barcodes # {}
    /\ tree # << >>

(* C7: after detect_code has decoded N >= 1 codes the tree holds exactly N *)
(* rows, row i holding (i, payload of the i-th code), whatever was listed  *)
(* before and whatever the dedup set holds.                                *)
C7_StillScanRowPerCode ==
    (out.op = "detect_code" /\ out.detector /\ Len(out.decoded) >= 1)
        => /\ Len(tree) = Len(out.decoded)
           /\ \A i \in 1..Len(out.decoded) :
                 tree[i].values = <<i, out.decoded[i].data>>

\* a scan of an image holding twice a payload the feed has already seen
C7_Witness ==
    \E p \in Payloads :
        /\ out.op = "detect_code"
        /\ Len(out.decoded) = 2
        /\ out.decoded[1].data = p /\ out.decoded[2].data = p
        /\ p \in seen_barcodes
        /\ RowsOf(p) = 2

(* C8: after detect_code has decoded an image with no code the tree holds  *)
(* the single row (1, "No barcodes detected") and no earlier row.          *)
C8_StillScanSentinel ==
    (out.op = "detect_code" /\ out.detector /\ out.decoded = << >>)
        => /\ Len(tree) = 1
           /\ tree[1].values = <<1, "No barcodes detected">>

\* the sentinel replaced the row the feed had inserted for a seen payload
C8_Witness ==
    /\ out.op = "detect_code" /\ out.detector /\ out.decoded = << >>
    /\ \E p \in Payloads : feedRows[p] = 1 /\ RowsOf(p) = 0

(* C9: select_link opens a payload that starts with "https:" without       *)
(* asking; for any other payload it asks, and opens it if and only if the  *)
(* answer is OK.  It changes neither the dedup set nor the rows.           *)
C9_SelectLink ==
    [][out'.op = "select_link"
          => LET link  == out'.link
                 https == Len(link) >= 6 /\ SubSeq(link, 1, 6) = "https:"
                 opens == selOpens' = [selOpens EXCEPT ![link] = @ + 1]
             IN  /\ \E i \in DOMAIN tree : tree[i].values[2] = link
                 /\ https => ~out'.confirm /\ opens
                 /\ ~https => /\ out'.confirm
                              /\ out'.response = "OK" => opens
                              /\ out'.response # "OK" => selOpens' = selOpens
                 /\ seen_barcodes' = seen_barcodes
                 /\ tree' = tree
                 /\ autoOpens' = autoOpens]_vars

\* the confirmation for "ftp://host/res" was declined and nothing was opened
C9_Witness ==
    /\ out.op = "select_link"
    /\ out.link = "ftp://host/res"
    /\ out.confirm /\ out.response = "Cancel"
    /\ selOpens["ftp://host/res"] = 0

(* C10: take_picture with no active feed (the handle is None, could not be *)
(* opened, or was released by detect_code) shows the warning, writes no    *)
(* file and changes no session state.                                      *)
C10_CaptureUnavailable ==
    [][(out'.op = "take_picture" /\ cap \in {None, "failed", "released"})
          => /\ out'.alert = "Please start the video feed first."
             /\ ~out'.wrote
             /\ file' = file
             /\ cap' = cap /\ openHandles' = openHandles
             /\ seen_barcodes' = seen_barcodes
             /\ tree' = tree]_vars

\* the warning shown after a still-image scan released the handle
C10_Witness ==
    /\ out.op = "take_picture"
    /\ out.alert = "Please start the video feed first."
    /\ cap = "released"
    /\ file = "missing"

(* C11: detect_code leaves the camera handle released; from then on, as    *)
(* long as cam_feed has not opened a new handle, a timer tick runs no      *)
(* detector and changes neither the dedup set, the opened urls, the rows   *)
(* nor the displayed image; only cam_feed makes the handle open again.     *)
C11_ScanStopsFeed ==
    /\ [](out.op = "detect_code" => ~isOpened(cap) /\ openHandles = 0)
    /\ [][(~isOpened(cap) /\ isOpened(cap')) => out'.op = "cam_feed"]_vars
    /\ [][(out'.op = "update_frame" /\ ~isOpened(cap))
             => /\ out'.read = "fail" /\ ~out'.detector
                /\ out'.urls = << >>
                /\ seen_barcodes' = seen_barcodes
                /\ autoOpens' = autoOpens
                /\ tree' = tree
                /\ shown' = shown]_vars

\* a tick after a scan that ended a running feed: the read failed and the
\* still image is still displayed
C11_Witness ==
    /\ out.op = "update_frame" /\ out.read = "fail"
    /\ cap = "released"
    /\ shown.src = "still"
    /\ seen_barcodes # {}

(* C12: decode_barcodes_over_feed handles the codes of one frame in        *)
(* detector order.  A code whose payload is neither in the dedup set nor   *)
(* earlier in the same frame is added to the set, gets one row (k,         *)
(* payload), k being its 1-based position in this frame, is opened once    *)
(* and is labelled "payload (type)".  Any other code gets no row, is not   *)
(* opened and is labelled with the payload alone.                          *)
C12_FramePerCode ==
    [][(out'.op \in {"update_frame", "cam_feed"} /\ out'.read = "ok")
          => LET B      == out'.barcodes
                 n      == Len(B)
                 new(k) == /\ B[k].data \notin seen_barcodes
                           /\ \A j \in 1..(k - 1) : B[j].data # B[k].data
                 News   == { k \in 1..n : new(k) }
                 m      == Cardinality(News)
                 nth(i) == CHOOSE k \in News :
                              Cardinality({ j \in News : j <= k }) = i
             IN  /\ seen_barcodes' = seen_barcodes \cup { B[k].data : k \in News }
                 /\ Len(out'.labels) = n
                 /\ \A k \in 1..n :
                       out'.labels[k] =
                          IF new(k) THEN B[k].data \o " (" \o B[k].type \o ")"
                                    ELSE B[k].data
                 /\ Len(tree') = Len(tree) + m
                 /\ SubSeq(tree', 1, Len(tree)) = tree
                 /\ \A i \in 1..m :
                       tree'[Len(tree) + i].values = <<nth(i), B[nth(i)].data>>
                 /\ Len(out'.urls) = m
                 /\ \A i \in 1..m : out'.urls[i] = B[nth(i)].data
                 /\ \A p \in Payloads :
                       autoOpens'[p] = autoOpens[p]
                          + (IF \E k \in News : B[k].data = p THEN 1 ELSE 0)]_vars

\* a frame whose first code was seen in an earlier frame and whose second
\* code is new: one row, with ordinal 2, one url opened, one label of each kind
C12_Witness ==
    /\ out.op = "update_frame" /\ out.read = "ok"
    /\ Len(out.barcodes) = 2
    /\ out.barcodes[1].data = "https://example.com"
    /\ out.barcodes[2].data = "ftp://host/res"
    /\ out.labels = <<"https://example.com", "ftp://host/res (CODE128)">>
    /\ out.urls = <<"ftp://host/res">>
    /\ Len(tree) >= 2
    /\ tree[Len(tree)].values = <<2, "ftp://host/res">>

(* C13, as stated: cam_feed called while a feed loop is running (the       *)
(* device is open and an update_frame callback is pending) stops that      *)
(* loop, so that at most one update_frame callback is pending afterwards.  *)
C13_AsStated ==
    [][(out'.op = "cam_feed" /\ isOpened(cap) /\ timers >= 1)
          => timers' <= 1]_vars

(* C14, as stated: cam_feed, take_picture, detect_code and select_link     *)
(* each leave seen_barcodes unchanged, and detect_code opens no url.       *)
C14_AsStated ==
    [][/\ out'.op \in {"cam_feed", "take_picture", "detect_code", "select_link"}
             => seen_barcodes' = seen_barcodes
       /\ out'.op = "detect_code"
             => /\ out'.urls = << >>
                /\ autoOpens' = autoOpens /\ selOpens' = selOpens]_vars

(* C14, amended: seen_barcodes changes only in a step that ran             *)
(* decode_barcodes_over_feed on a frame, which is a timer tick or the      *)
(* update_frame call that cam_feed makes itself; take_picture, detect_code *)
(* and select_link leave it unchanged, and detect_code opens no url.       *)
C14_OnlyFeedMutatesDedup ==
    [][/\ seen_barcodes' # seen_barcodes
             => /\ out'.op \in {"update_frame", "cam_feed"}
                /\ out'.read = "ok" /\ out'.detector
                /\ seen_barcodes' =
                      seen_barcodes
                         \cup { out'.barcodes[i].data : i \in DOMAIN out'.barcodes }
       /\ out'.op \in {"take_picture", "detect_code", "select_link"}
             => seen_barcodes' = seen_barcodes
       /\ out'.op = "detect_code"
             => /\ out'.urls = << >>
                /\ autoOpens' = autoOpens /\ selOpens' = selOpens]_vars

\* a still-image scan decoded a payload the feed has never seen: the payload
\* is listed but is not in the set and has not been opened
C14_Witness ==
    \E p \in Payloads :
        /\ out.op = "detect_code" /\ out.detector
        /\ RowsOf(p) > 0
        /\ p \notin seen_barcodes
        /\ seen_barcodes # {}
        /\ autoOpens[p] = 0 /\ selOpens[p] = 0

(* C15, as stated: a frame of the feed in which the detector finds nothing *)
(* adds no row, opens no url and leaves the dedup set unchanged, and the   *)
(* frame shown is the input frame, mirrored, with nothing drawn on it.     *)
C15_AsStated ==
    [][(/\ out'.op \in {"update_frame", "cam_feed"}
        /\ out'.read = "ok"
        /\ out'.barcodes = << >>)
          => /\ tree' = tree
             /\ out'.urls = << >>
             /\ autoOpens' = autoOpens /\ selOpens' = selOpens
             /\ seen_barcodes' = seen_barcodes
             /\ out'.labels = << >>
             /\ shown'.src = "live"
             /\ shown'.flipped
             /\ shown'.channels = "RGB"]_vars

\* the part of C15 about rows, urls, the dedup set and annotations
C15_EmptyFrameNoEffects ==
    [][(/\ out'.op \in {"update_frame", "cam_feed"}
        /\ out'.read = "ok"
        /\ out'.barcodes = << >>)
          => /\ tree' = tree
             /\ out'.urls = << >>
             /\ autoOpens' = autoOpens /\ selOpens' = selOpens
             /\ seen_barcodes' = seen_barcodes
             /\ out'.labels = << >>
             /\ shown'.src = "live" /\ shown'.flipped]_vars

(* C16: take_picture on an opened handle whose read fails shows the alert  *)
(* 'Failed to capture image.' and writes no file; captured_image.jpg is    *)
(* written, replacing what was there, only by a take_picture whose read    *)
(* succeeded.                                                              *)
C16_CaptureWritesOnlyOnSuccess ==
    [][/\ (out'.op = "take_picture" /\ isOpened(cap) /\ out'.read = "fail")
             => /\ out'.alert = "Failed to capture image."
                /\ ~out'.wrote
                /\ file' = file
       /\ (out'.op = "take_picture" /\ isOpened(cap) /\ out'.read = "ok")
             => /\ out'.alert = ""
                /\ out'.wrote
                /\ file' = "image"
       /\ (file' # file \/ out'.wrote)
             => out'.op = "take_picture" /\ out'.read = "ok"]_vars

\* the read failed on an opened handle: the alert was shown and the file
\* that was missing is still missing
C16_Witness ==
    /\ out.op = "take_picture" /\ out.read = "fail"
    /\ out.alert = "Failed to capture image."
    /\ isOpened(cap)
    /\ file = "missing"

(* C17, as stated: every string passed to webbrowser.open, by the feed or  *)
(* by a row selection, is the payload of a code the detector returned; in  *)
(* particular the text "No barcodes detected" is never opened.             *)
C17_AsStated ==
    \A u \in Strings :
        (autoOpens[u] > 0 \/ selOpens[u] > 0)
            => u \in Payloads /\ u # "No barcodes detected"

(* C18: at most one camera handle holds the device open at any time, and   *)
(* it is the one in the global cap; after detect_code none is open, and    *)
(* none is open once the event loop has exited.                            *)
C18_OneOpenHandle ==
    /\ openHandles \in {0, 1}
    /\ openHandles = 1 <=> isOpened(cap)
    /\ out.op = "detect_code" => openHandles = 0
    /\ ~running => openHandles = 0

\* cam_feed called on a running feed: the image on the label comes from the
\* earlier handle, the new handle is open and its first read failed, and one
\* handle is open
C18_Witness ==
    /\ out.op = "cam_feed" /\ out.read = "fail"
    /\ isOpened(cap)
    /\ shown.src = "live"
    /\ timers = 2
    /\ openHandles = 1

====
